---- MODULE Spec2Model ----
(***************************************************************************)
(* A model of the yt-summarize pipeline's chunking, fallback, reassembly   *)
(* and parsing logic: the sentence splitter and the chunked summarizer of  *)
(* src/src/summarizer.py, the chunked transcription of                     *)
(* src/src/transcription.py and the section parser of summarizer.py.       *)
(*                                                                         *)
(* A text is a sequence of atoms (one-character strings for the splitter,  *)
(* words and separators for the parsers and the summarizer).  Each         *)
(* subsystem has its own specification over its own variables; the other   *)
(* subsystems' variables stay idle in it.                                  *)
(***************************************************************************)
EXTENDS Integers, Sequences, FiniteSets, TLC

VARIABLES
    \* Summarizer._split_transcript_into_chunks
    transcript, max_chunk_chars, sentences, chunks, current_chunk,
    current_length, split_pc,
    \* Summarizer._parse_sections
    summary_lines, sections, current_section, current_content, parse_pc,
    \* Summarizer.summarize_transcript and _summarize_chunked_transcript
    style, transcript_len, n_chunks, chunk_i, chunk_summaries, calls,
    sum_result, sum_error, sum_pc,
    \* TranscriptionService.transcribe_audio and _transcribe_chunked
    audio_exists, audio_size, audio_len, audio_chunks, files, reported,
    full_transcript, all_segments, tr_result, tr_error, tr_pc,
    \* Summarizer._parse_chapters
    chapter_lines, chapters, current_chapter, chap_pc,
    \* Summarizer._summarize_chunked_transcript, on the lengths of the texts
    long_chunks, long_i, combined_len, final_len, final_mode, long_pc,
    \* VideoSummarizer.process
    input_path, generate_audio, has_client, video_path, audio_path, disk,
    outputs, synthesis, proc_result, proc_error, proc_pc,
    \* OutputGenerator._build_markdown_content
    markdown, render_pc

splitVars == <<transcript, max_chunk_chars, sentences, chunks, current_chunk,
               current_length, split_pc>>

parseVars == <<summary_lines, sections, current_section, current_content,
               parse_pc>>

sumVars == <<style, transcript_len, n_chunks, chunk_i, chunk_summaries, calls,
             sum_result, sum_error, sum_pc>>

trVars == <<audio_exists, audio_size, audio_len, audio_chunks, files, reported,
            full_transcript, all_segments, tr_result, tr_error, tr_pc>>

chapVars == <<chapter_lines, chapters, current_chapter, chap_pc>>

longVars == <<long_chunks, long_i, combined_len, final_len, final_mode, long_pc>>

procVars == <<input_path, generate_audio, has_client, video_path, audio_path,
              disk, outputs, synthesis, proc_result, proc_error, proc_pc>>

renderVars == <<markdown, render_pc>>

vars == <<splitVars, parseVars, sumVars, trVars, chapVars, longVars, procVars, renderVars>>

notSplitVars == <<parseVars, sumVars, trVars, chapVars, longVars, procVars, renderVars>>
notParseVars == <<splitVars, sumVars, trVars, chapVars, longVars, procVars, renderVars>>
notSumVars == <<splitVars, parseVars, trVars, chapVars, longVars, procVars, renderVars>>
notTrVars == <<splitVars, parseVars, sumVars, chapVars, longVars, procVars, renderVars>>
notChapVars == <<splitVars, parseVars, sumVars, trVars, longVars, procVars, renderVars>>
notLongVars == <<splitVars, parseVars, sumVars, trVars, chapVars, procVars, renderVars>>
notProcVars == <<splitVars, parseVars, sumVars, trVars, chapVars, longVars, renderVars>>
notRenderVars == <<splitVars, parseVars, sumVars, trVars, chapVars, longVars, procVars>>

\* The variables of a call of transcribe_audio that its return discards, and
\* the subsystems that a run of the pipeline leaves idle.
trFrame == <<audio_exists, audio_size, audio_len, audio_chunks, reported,
             full_transcript, all_segments, tr_result, tr_error, tr_pc>>
notPipelineVars == <<splitVars, parseVars, sumVars, chapVars, longVars,
                     renderVars>>

(***************************************************************************)
(* The state of a subsystem that is not running.                           *)
(***************************************************************************)

SplitIdle ==
    /\ transcript = <<>>
    /\ max_chunk_chars = 0
    /\ sentences = <<>>
    /\ chunks = <<>>
    /\ current_chunk = <<>>
    /\ current_length = 0
    /\ split_pc = "idle"

ParseIdle ==
    /\ summary_lines = <<>>
    /\ sections = <<>>
    /\ current_section = "overview"
    /\ current_content = <<>>
    /\ parse_pc = "idle"

SumIdle ==
    /\ style = "detailed"
    /\ transcript_len = 0
    /\ n_chunks = 0
    /\ chunk_i = 0
    /\ chunk_summaries = <<>>
    /\ calls = <<>>
    /\ sum_result = <<>>
    /\ sum_error = "none"
    /\ sum_pc = "idle"

TrIdle ==
    /\ audio_exists = FALSE
    /\ audio_size = 0
    /\ audio_len = 0
    /\ audio_chunks = <<>>
    /\ files = {}
    /\ reported = <<>>
    /\ full_transcript = <<>>
    /\ all_segments = <<>>
    /\ tr_result = <<>>
    /\ tr_error = "none"
    /\ tr_pc = "idle"

ChapIdle ==
    /\ chapter_lines = <<>>
    /\ chapters = <<>>
    /\ current_chapter = <<>>
    /\ chap_pc = "idle"

LongIdle ==
    /\ long_chunks = 0
    /\ long_i = 0
    /\ combined_len = 0
    /\ final_len = 0
    /\ final_mode = "none"
    /\ long_pc = "idle"

ProcIdle ==
    /\ input_path = "none"
    /\ generate_audio = FALSE
    /\ has_client = FALSE
    /\ video_path = "none"
    /\ audio_path = "none"
    /\ disk = {}
    /\ outputs = {}
    /\ synthesis = "not_called"
    /\ proc_result = <<>>
    /\ proc_error = "none"
    /\ proc_pc = "idle"

RenderIdle ==
    /\ markdown = <<>>
    /\ render_pc = "idle"

(***************************************************************************)
(* Text helpers.                                                           *)
(***************************************************************************)

\* The characters \s of Python's re matches, as far as the model's texts go.
Whitespace == {" ", "\n", "\t"}

\* The character class [.!?] of the sentence-boundary pattern.
Punct == {".", "!", "?"}

\* Python's sep.join(parts) on texts.
RECURSIVE Join(_, _)
Join(parts, sep) ==
    IF Len(parts) = 0 THEN <<>>
    ELSE IF Len(parts) = 1 THEN parts[1]
    ELSE parts[1] \o sep \o Join(Tail(parts), sep)

\* Concatenation of a sequence of sequences.
RECURSIVE Flatten(_)
Flatten(seqs) ==
    IF Len(seqs) = 0 THEN <<>> ELSE seqs[1] \o Flatten(Tail(seqs))

\* All sequences over S of length at most n.
SeqsUpTo(S, n) == UNION {[1..k -> S] : k \in 0..n}

(***************************************************************************)
(* The sentence splitter, summarizer.py:44-64.                             *)
(***************************************************************************)

\* Bounds of the splitter's inputs.
MaxTextLen == 5
MaxChunkChars == 4

\* The characters the splitter's texts are made of: a letter, a sentence
\* punctuation mark, and two kinds of whitespace.
SplitAlphabet == {"a", ".", " ", "\n"}

\* First index at or after i whose character is not whitespace (Len+1 if none):
\* where the greedy \s+ stops.
RECURSIVE SkipWhitespace(_, _)
SkipWhitespace(t, i) ==
    IF i > Len(t) \/ t[i] \notin Whitespace THEN i ELSE SkipWhitespace(t, i + 1)

\* re.split(r'(?<=[.!?])\s+', t) from position i on, cur being the piece under
\* construction and acc the pieces already cut.
RECURSIVE ReSplitFrom(_, _, _, _)
ReSplitFrom(t, i, cur, acc) ==
    IF i > Len(t) THEN Append(acc, cur)
    ELSE IF i > 1 /\ t[i] \in Whitespace /\ t[i - 1] \in Punct
         THEN ReSplitFrom(t, SkipWhitespace(t, i), <<>>, Append(acc, cur))
         ELSE ReSplitFrom(t, i + 1, Append(cur, t[i]), acc)

\* sentences = re.split(r'(?<=[.!?])\s+', transcript)
ReSplit(t) == ReSplitFrom(t, 1, <<>>, <<>>)

\* ' '.join(current_chunk)
JoinChunk(sents) == Join(sents, <<" ">>)

\* The test that closes the current chunk (line 53).
ChunkIsFull(cur_length, sentence_length, cur_chunk, max_chars) ==
    cur_length + sentence_length > max_chars /\ cur_chunk # <<>>

\* The chunk a closing sentence opens (line 55).
DroppedSentence(sentence) == <<>>
NewChunk(sentence) == <<sentence>>

\* The call _split_transcript_into_chunks(transcript, max_chunk_chars), up to
\* the loop: the sentences are cut and the accumulators are empty.
SplitInit ==
    /\ ParseIdle
    /\ SumIdle
    /\ TrIdle
    /\ ChapIdle
    /\ LongIdle
    /\ ProcIdle
    /\ RenderIdle
    /\ transcript \in SeqsUpTo(SplitAlphabet, MaxTextLen)
    /\ max_chunk_chars \in 1..MaxChunkChars
    /\ sentences = ReSplit(transcript)
    /\ chunks = <<>>
    /\ current_chunk = <<>>
    /\ current_length = 0
    /\ split_pc = "loop"

\* One iteration of "for sentence in sentences" (lines 51-59); the sentences
\* not yet visited are what is left of the variable sentences.
SplitLoop ==
    /\ split_pc = "loop"
    /\ sentences # <<>>
    /\ LET sentence == Head(sentences)
           sentence_length == Len(sentence)
       IN IF ChunkIsFull(current_length, sentence_length, current_chunk,
                         max_chunk_chars)
          THEN /\ chunks' = Append(chunks, JoinChunk(current_chunk))
               /\ current_chunk' = NewChunk(sentence)
               /\ current_length' = sentence_length
          ELSE /\ chunks' = chunks
               /\ current_chunk' = Append(current_chunk, sentence)
               /\ current_length' = current_length + sentence_length
    /\ sentences' = Tail(sentences)
    /\ UNCHANGED <<transcript, max_chunk_chars, split_pc>>
    /\ UNCHANGED notSplitVars

\* The flush of the last chunk and the return (lines 61-64).
SplitFlush ==
    /\ split_pc = "loop"
    /\ sentences = <<>>
    /\ chunks' = IF current_chunk # <<>>
                 THEN Append(chunks, JoinChunk(current_chunk))
                 ELSE chunks
    /\ split_pc' = "done"
    /\ UNCHANGED <<transcript, max_chunk_chars, sentences, current_chunk,
                   current_length>>
    /\ UNCHANGED notSplitVars

SplitNext == SplitLoop \/ SplitFlush

SpecSplit == SplitInit /\ [][SplitNext]_vars

(***************************************************************************)
(* Properties of the splitter.                                             *)
(***************************************************************************)

\* The sentences of each chunk, read chunk after chunk.
ChunkSentences(cs) == Flatten([i \in 1..Len(cs) |-> ReSplit(cs[i])])

\* The text with every run of whitespace that follows sentence punctuation
\* replaced by one space.
RECURSIVE NormalizeFrom(_, _)
NormalizeFrom(t, i) ==
    IF i > Len(t) THEN <<>>
    ELSE IF i > 1 /\ t[i] \in Whitespace /\ t[i - 1] \in Punct
         THEN <<" ">> \o NormalizeFrom(t, SkipWhitespace(t, i))
         ELSE <<t[i]>> \o NormalizeFrom(t, i + 1)

NormalizeSeparators(t) == NormalizeFrom(t, 1)

\* Every whitespace run that follows sentence punctuation is one space.
SingleSpaced(t) ==
    \A i \in 2..Len(t) :
        (t[i] \in Whitespace /\ t[i - 1] \in Punct)
            => /\ t[i] = " "
               /\ (i = Len(t) \/ t[i + 1] \notin Whitespace)

\* C6: no chunk returned by split(text, N) is longer than N characters unless
\* it consists of a single sentence that is itself longer than N.
C6_ChunkLengthBound ==
    split_pc = "done" =>
        \A i \in 1..Len(chunks) :
            \/ Len(chunks[i]) <= max_chunk_chars
            \/ Len(ReSplit(chunks[i])) = 1

\* C7: split applied to the empty text returns the empty sequence of chunks.
C7_EmptyTextNoChunks ==
    (split_pc = "done" /\ transcript = <<>>) => chunks = <<>>

\* C8: for a non-empty text no chunk returned by split is the empty string.
C8_NoEmptyChunk ==
    (split_pc = "done" /\ transcript # <<>>) =>
        \A i \in 1..Len(chunks) : chunks[i] # <<>>

\* C9 as stated: the sentences of the chunks are the sentences of the input in
\* input order, and joining the chunks with the separator gives back the
\* original text.
C9_ReconstructsOriginal ==
    split_pc = "done" =>
        /\ ChunkSentences(chunks) = ReSplit(transcript)
        /\ JoinChunk(chunks) = transcript

\* C9 as amended: the sentences of the chunks are the sentences of the input
\* in input order (none lost, duplicated, reordered or cut), and joining the
\* chunks with one space gives the original text with every run of whitespace
\* after sentence punctuation replaced by one space: the original text itself
\* when every such run is a single space.
C9_SentencesPreserved ==
    split_pc = "done" =>
        /\ ChunkSentences(chunks) = ReSplit(transcript)
        /\ JoinChunk(chunks) = NormalizeSeparators(transcript)
        /\ SingleSpaced(transcript) => JoinChunk(chunks) = transcript

\* A split into several chunks of a text whose sentence separators are not
\* all single spaces.
C9_Witness ==
    /\ split_pc = "done"
    /\ Len(chunks) >= 2
    /\ ~SingleSpaced(transcript)
    /\ \E i \in 1..Len(chunks) : Len(ReSplit(chunks[i])) >= 2

(***************************************************************************)
(* The section parser, summarizer.py:235-274.                              *)
(***************************************************************************)

\* Bound on the number of lines of a summary given to the parser.
MaxLines == 6

\* summary.split('\n'): the lines of a text, cur being the line under
\* construction.
RECURSIVE SplitLinesFrom(_, _, _, _)
SplitLinesFrom(t, i, cur, acc) ==
    IF i > Len(t) THEN Append(acc, cur)
    ELSE IF t[i] = "\n"
         THEN SplitLinesFrom(t, i + 1, <<>>, Append(acc, cur))
         ELSE SplitLinesFrom(t, i + 1, Append(cur, t[i]), acc)

SplitLines(t) == SplitLinesFrom(t, 1, <<>>, <<>>)

\* line.strip(): the line without its leading and trailing whitespace.
RECURSIVE LStrip(_)
LStrip(line) ==
    IF line # <<>> /\ Head(line) \in Whitespace THEN LStrip(Tail(line)) ELSE line

RECURSIVE RStrip(_)
RStrip(line) ==
    IF line # <<>> /\ line[Len(line)] \in Whitespace
    THEN RStrip(SubSeq(line, 1, Len(line) - 1))
    ELSE line

Strip(line) == RStrip(LStrip(line))

\* str.lower() on one word.
LowerWord(w) ==
    CASE w = "Overview" -> "overview"
      [] w = "Introduction" -> "introduction"
      [] w = "Key" -> "key"
      [] w = "Points" -> "points"
      [] w = "Details" -> "details"
      [] w = "Examples" -> "examples"
      [] w = "Conclusion" -> "conclusion"
      [] w = "Takeaways" -> "takeaways"
      [] w = "Summary" -> "summary"
      [] OTHER -> w

\* line.lower()
Lower(line) == [i \in 1..Len(line) |-> LowerWord(line[i])]

\* Words that hold a keyword's word as a proper substring.
Embeds == {<<"takeaways", "takeaway">>, <<"overview:", "overview">>}

WordHas(w, k) == w = k \/ <<w, k>> \in Embeds

\* "keyword in text": the keyword's words occur in a row in the text.
Contains(text, keyword) ==
    \E off \in 0..(Len(text) - Len(keyword)) :
        \A j \in 1..Len(keyword) : WordHas(text[off + j], keyword[j])

SectionNames == {"overview", "key_points", "details", "conclusion"}

\* The keyword lists of lines 248, 253, 258 and 263.
Keywords(section) ==
    CASE section = "overview" -> {<<"overview">>, <<"introduction">>}
      [] section = "key_points" ->
            {<<"key", " ", "points">>, <<"main", " ", "ideas">>,
             <<"main", " ", "points">>}
      [] section = "details" -> {<<"details">>, <<"examples">>}
      [] section = "conclusion" ->
            {<<"conclusion">>, <<"takeaway">>, <<"summary">>}

\* any(keyword in line.lower() for keyword in [...])
MatchesSection(line, section) ==
    LET low == Lower(line)
    IN \E k \in Keywords(section) : Contains(low, k)

\* The chain of lines 248-268 read from its last branch to its first.
ClassifyLastMatch(line) ==
    IF MatchesSection(line, "conclusion") THEN "conclusion"
    ELSE IF MatchesSection(line, "details") THEN "details"
    ELSE IF MatchesSection(line, "key_points") THEN "key_points"
    ELSE IF MatchesSection(line, "overview") THEN "overview"
    ELSE "none"

\* The if/elif chain of lines 248-268: the section a line is a header of, or
\* "none" for a content line.
Classify(line) ==
    IF MatchesSection(line, "overview") THEN "overview"
    ELSE IF MatchesSection(line, "key_points") THEN "key_points"
    ELSE IF MatchesSection(line, "details") THEN "details"
    ELSE IF MatchesSection(line, "conclusion") THEN "conclusion"
    ELSE "none"

\* sections[key] = value
Put(dict, key, value) ==
    [k \in DOMAIN dict \cup {key} |-> IF k = key THEN value ELSE dict[k]]

\* if current_content: sections[current_section] = '\n'.join(current_content)
Flush(secs, cur_section, cur_content) ==
    IF cur_content # <<>>
    THEN Put(secs, cur_section, Join(cur_content, <<"\n">>))
    ELSE secs

\* The accumulator after a header line (lines 252, 257, 262, 267).
HeaderKept(line) == <<line>>
ContentAfterHeader(line) == <<>>

\* The body of "for line in lines" (lines 243-269) on the parser's state.
ParseLine(st, raw) ==
    LET line == Strip(raw)
        cls == Classify(line)
    IN IF line = <<>> THEN st
       ELSE IF cls # "none"
            THEN [sections |-> Flush(st.sections, st.current_section,
                                     st.current_content),
                  current_section |-> cls,
                  current_content |-> ContentAfterHeader(line)]
            ELSE [st EXCEPT !.current_content = Append(@, line)]

\* The parser's state before the loop (lines 236-238).
ParseStart ==
    [sections |-> <<>>, current_section |-> "overview", current_content |-> <<>>]

RECURSIVE ParseLines(_, _)
ParseLines(st, lines) ==
    IF lines = <<>> THEN st ELSE ParseLines(ParseLine(st, Head(lines)), Tail(lines))

\* _parse_sections(summary)
ParseSections(summary) ==
    LET st == ParseLines(ParseStart, SplitLines(summary))
    IN Flush(st.sections, st.current_section, st.current_content)

\* The lines the parser's summaries are made of: a blank line (whitespace
\* only), three headers, and two content lines, one of them padded.
SummaryLines ==
    { <<" ">>,
      <<"Overview">>,
      <<"Key", " ", "Points">>,
      <<"Conclusion">>,
      <<"text">>,
      <<" ", "more", " ">> }

\* The call _parse_sections(summary), up to the loop.
ParseInit ==
    /\ SplitIdle
    /\ SumIdle
    /\ TrIdle
    /\ ChapIdle
    /\ LongIdle
    /\ ProcIdle
    /\ RenderIdle
    /\ summary_lines = <<>>
    /\ sections = ParseStart.sections
    /\ current_section = ParseStart.current_section
    /\ current_content = ParseStart.current_content
    /\ parse_pc = "loop"

\* One iteration of the loop on the next line of the summary; summary_lines
\* records the lines read so far.
ParseStep ==
    /\ parse_pc = "loop"
    /\ Len(summary_lines) < MaxLines
    /\ \E raw \in SummaryLines :
       \E st \in {ParseLine([sections |-> sections,
                             current_section |-> current_section,
                             current_content |-> current_content], raw)} :
             /\ summary_lines' = Append(summary_lines, raw)
             /\ sections' = st.sections
             /\ current_section' = st.current_section
             /\ current_content' = st.current_content
    /\ UNCHANGED parse_pc
    /\ UNCHANGED notParseVars

\* The end of the summary: the last flush and the return (lines 271-274).
ParseEnd ==
    /\ parse_pc = "loop"
    /\ sections' = Flush(sections, current_section, current_content)
    /\ parse_pc' = "done"
    /\ UNCHANGED <<summary_lines, current_section, current_content>>
    /\ UNCHANGED notParseVars

ParseNext == ParseStep \/ ParseEnd

SpecParse == ParseInit /\ [][ParseNext]_vars

(***************************************************************************)
(* Properties of the section parser.                                       *)
(***************************************************************************)

\* The non-blank lines of the summary read so far, stripped.
RECURSIVE NonBlank(_)
NonBlank(lines) ==
    IF lines = <<>> THEN <<>>
    ELSE IF Strip(Head(lines)) = <<>> THEN NonBlank(Tail(lines))
         ELSE <<Strip(Head(lines))>> \o NonBlank(Tail(lines))

\* The sections whose keywords a line contains.
SectionsNamed(line) == {s \in SectionNames : MatchesSection(line, s)}

\* For each line of L, the sections it names.
NamedBy(L) == [h \in 1..Len(L) |-> SectionsNamed(L[h])]

\* The indexes of the header lines, named being NamedBy(L).
HeaderIndexes(named) == {h \in 1..Len(named) : named[h] # {}}

\* The one section a set of one section holds.
TheSection(named_h) == CHOOSE s \in SectionNames : named_h = {s}

\* The index of the first header after h among the header indexes H, or
\* one past the last line.
NextHeader(H, h, last) ==
    IF \E g \in H : g > h
    THEN CHOOSE g \in H : g > h /\ \A g2 \in H : g2 > h => g <= g2
    ELSE last + 1

\* A summary of header lines each followed by content lines: it starts with
\* a header, every header names one section and is followed by at least one
\* content line, and no two headers name the same section.
HeadersWithContent(named) ==
    /\ named # <<>>
    /\ named[1] # {}
    /\ named[Len(named)] = {}
    /\ \A h \in HeaderIndexes(named) :
          /\ (h + 1) \notin HeaderIndexes(named)
          /\ Cardinality(named[h]) = 1
    /\ \A h, g \in HeaderIndexes(named) : h # g => named[h] # named[g]

\* C10: for a summary of header lines each followed by content lines, the
\* headers naming distinct sections, parse_sections returns exactly the
\* sections the headers name, each mapped to its own content lines in order,
\* and no header line's text is among the lines of any section's content.
C10_HeadersGiveSections ==
    parse_pc = "done" =>
        \A L \in {NonBlank(summary_lines)} : \A named \in {NamedBy(L)} :
           HeadersWithContent(named) =>
              \A H \in {HeaderIndexes(named)} :
                 /\ DOMAIN sections = {TheSection(named[h]) : h \in H}
                 /\ \A h \in H :
                       sections[TheSection(named[h])] =
                           Join(SubSeq(L, h + 1, NextHeader(H, h, Len(L)) - 1),
                                <<"\n">>)
                 /\ \A s \in DOMAIN sections : \A h \in H :
                       LET body == SplitLines(sections[s])
                       IN \A i \in 1..Len(body) : body[i] # L[h]

\* The parser has returned on a summary with the three headers Overview,
\* Key Points and Conclusion, each followed by content.
C10_Witness ==
    /\ parse_pc = "done"
    /\ \E named \in {NamedBy(NonBlank(summary_lines))} :
          /\ HeadersWithContent(named)
          /\ {TheSection(named[h]) : h \in HeaderIndexes(named)} =
                 {"overview", "key_points", "conclusion"}

\* How many times the line v occurs in a sequence of lines.
Occurrences(lines, v) == Cardinality({i \in 1..Len(lines) : lines[i] = v})

\* The lines of the text the result holds for a section, none if it holds
\* none.
SectionLines(secs, s) ==
    IF s \in DOMAIN secs THEN SplitLines(secs[s]) ELSE <<>>

\* The content lines of L: the lines that name no section.
ContentLines(L) ==
    LET IsContent(line) == SectionsNamed(line) = {}
    IN SelectSeq(L, IsContent)

\* C21: parse_sections loses no content: every non-blank line that is not a
\* header is in the text of exactly one section, as many times as the summary
\* has it, also when a section is selected by more than one header.
C21_NoContentLost ==
    parse_pc = "done" =>
        \A content \in {ContentLines(NonBlank(summary_lines))} :
        \A i \in 1..Len(content) :
            Occurrences(content, content[i]) =
                Occurrences(SectionLines(sections, "overview"), content[i])
                + Occurrences(SectionLines(sections, "key_points"), content[i])
                + Occurrences(SectionLines(sections, "details"), content[i])
                + Occurrences(SectionLines(sections, "conclusion"), content[i])

(***************************************************************************)
(* The section parser on lines that name several sections at once.         *)
(***************************************************************************)

\* Bound on the number of lines of a summary whose lines name several
\* sections.
MaxPriorityLines == 3

\* One keyword of each section, as a summary would write it.
HeaderWords(section) ==
    CASE section = "overview" -> <<"Overview">>
      [] section = "key_points" -> <<"Key", " ", "Points">>
      [] section = "details" -> <<"Examples">>
      [] section = "conclusion" -> <<"Summary">>

\* A line holding one keyword of each section of S, the keyword of the
\* section the chain tests last coming first in the line.
LineNaming(S) ==
    LET InS(s) == s \in S
        named == SelectSeq(<<"conclusion", "details", "key_points", "overview">>,
                           InS)
    IN Join([i \in 1..Len(named) |-> HeaderWords(named[i])], <<" ">>)

\* The lines of these summaries: one line for every combination of sections,
\* a content line and a blank line.
PriorityLines ==
    {LineNaming(S) : S \in (SUBSET SectionNames) \ {{}}} \cup {<<"text">>, <<" ">>}

\* One iteration of the loop (lines 242-269) on a line of PriorityLines.
PriorityStep ==
    /\ parse_pc = "loop"
    /\ Len(summary_lines) < MaxPriorityLines
    /\ \E raw \in PriorityLines :
       \E st \in {ParseLine([sections |-> sections,
                             current_section |-> current_section,
                             current_content |-> current_content], raw)} :
             /\ summary_lines' = Append(summary_lines, raw)
             /\ sections' = st.sections
             /\ current_section' = st.current_section
             /\ current_content' = st.current_content
    /\ UNCHANGED parse_pc
    /\ UNCHANGED notParseVars

PriorityNext == PriorityStep \/ ParseEnd

SpecPriority == ParseInit /\ [][PriorityNext]_vars

\* The order in which the claim ranks the sections.
PriorityOrder == <<"overview", "key_points", "details", "conclusion">>

\* The section of N that comes first in the priority order.
FirstNamed(N) ==
    PriorityOrder[CHOOSE i \in 1..Len(PriorityOrder) :
                     /\ PriorityOrder[i] \in N
                     /\ \A j \in 1..(i - 1) : PriorityOrder[j] \notin N]

\* The index of the last header line, H being the header indexes.
LastHeader(H) == CHOOSE h \in H : \A g \in H : g <= h

\* The sections dictionary holding text under the one key overview, or
\* nothing when the text is empty.
OnlyOverview(secs, text_lines) ==
    IF text_lines = <<>> THEN DOMAIN secs = {}
    ELSE /\ DOMAIN secs = {"overview"}
         /\ secs["overview"] = Join(text_lines, <<"\n">>)

\* C11: whatever combination of sections a line names, the parser treats it
\* as the header of the first section it names in the order overview,
\* key_points, details, conclusion: after the last header read, the current
\* section is that section and the lines read since are its content, stored
\* under it on return.  The lines read before any header are the content of
\* overview.
C11_FirstMatchWins ==
    \A L \in {NonBlank(summary_lines)} : \A named \in {NamedBy(L)} :
    \A H \in {HeaderIndexes(named)} :
       IF H = {}
       THEN IF parse_pc = "loop"
            THEN /\ current_section = "overview"
                 /\ current_content = L
                 /\ DOMAIN sections = {}
            ELSE OnlyOverview(sections, L)
       ELSE \A h \in {LastHeader(H)} :
            \A body \in {SubSeq(L, h + 1, Len(L))} :
               /\ current_section = FirstNamed(named[h])
               /\ current_content = body
               /\ (H = {h} /\ parse_pc = "loop") =>
                      OnlyOverview(sections, SubSeq(L, 1, h - 1))
               /\ (parse_pc = "done" /\ body # <<>>) =>
                      /\ FirstNamed(named[h]) \in DOMAIN sections
                      /\ sections[FirstNamed(named[h])] = Join(body, <<"\n">>)

\* The parser has returned on a summary of a content line, a line naming
\* both details and conclusion, and a content line: the first is stored
\* under overview and the last under details.
C11_Witness ==
    /\ parse_pc = "done"
    /\ summary_lines = <<<<"text">>, LineNaming({"details", "conclusion"}),
                         <<"text">>>>
    /\ DOMAIN sections = {"overview", "details"}
    /\ sections["details"] = <<"text">>

(***************************************************************************)
(* The chapter parser, summarizer.py:310-336.  A line is a sequence of      *)
(* characters.                                                             *)
(***************************************************************************)

\* Bound on the number of lines of a chapters listing.
MaxChapterLines == 4

\* The characters \d matches.
Digits == {"0", "1", "2", "3", "4", "5", "6", "7", "8", "9"}

\* line has the character c at position i.
CharAt(line, i, c) == i <= Len(line) /\ line[i] = c

\* line has n digits from position i on.
DigitsAt(line, i, n) ==
    /\ i + n - 1 <= Len(line)
    /\ \A j \in i..(i + n - 1) : line[j] \in Digits

\* The pattern \[(\d{1,2}:\d{2}:\d{2})\](.+) of line 319, matched at the
\* start of the line: the numbers k of digits that \d{1,2} can take.
HourDigits(line) ==
    {k \in 1..2 :
        /\ CharAt(line, 1, "[")
        /\ DigitsAt(line, 2, k)
        /\ CharAt(line, k + 2, ":")
        /\ DigitsAt(line, k + 3, 2)
        /\ CharAt(line, k + 5, ":")
        /\ DigitsAt(line, k + 6, 2)
        /\ CharAt(line, k + 8, "]")
        /\ Len(line) >= k + 9}

\* re.match(...) of line 319: <<>> for None, or the two groups of the match.
TimestampMatch(line) ==
    IF HourDigits(line) = {} THEN <<>>
    ELSE LET k == CHOOSE n \in HourDigits(line) : TRUE
         IN <<[group1 |-> SubSeq(line, 2, k + 7),
               group2 |-> SubSeq(line, k + 9, Len(line))]>>

\* The chapter opened on a match (lines 324-328).
NewChapter(match) ==
    [timestamp |-> match.group1,
     title |-> Strip(match.group2),
     description |-> <<>>]

\* The chapter whose description is the last line only.
DescriptionReplaced(chapter, line) ==
    [chapter EXCEPT !.description = line \o <<" ">>]

\* current_chapter["description"] += line + " " (line 330)
AppendDescription(chapter, line) ==
    [chapter EXCEPT !.description = @ \o line \o <<" ">>]

\* The lines of a chapters listing: two lines the pattern matches (one
\* padded, without a space after the bracket), a bracketed timestamp with
\* nothing after it, a bracketed MM:SS, two description lines (one padded)
\* and a blank line.
ChapterLines ==
    { <<"[", "0", ":", "0", "1", ":", "3", "0", "]", " ", "A">>,
      <<" ", "[", "1", "2", ":", "0", "0", ":", "0", "0", "]", "B", " ">>,
      <<"[", "0", "0", ":", "0", "1", ":", "3", "0", "]">>,
      <<"[", "0", "1", ":", "3", "0", "]", " ", "C">>,
      <<"t">>,
      <<" ", "x", " ">>,
      <<" ">> }

\* The call _parse_chapters(chapters_text), up to the loop (lines 311-314).
ChapInit ==
    /\ SplitIdle
    /\ ParseIdle
    /\ SumIdle
    /\ TrIdle
    /\ LongIdle
    /\ ProcIdle
    /\ RenderIdle
    /\ chapter_lines = <<>>
    /\ chapters = <<>>
    /\ current_chapter = <<>>
    /\ chap_pc = "loop"

\* One iteration of the loop (lines 314-330) on the next line of the
\* listing; chapter_lines records the lines read so far.
ChapStep ==
    /\ chap_pc = "loop"
    /\ Len(chapter_lines) < MaxChapterLines
    /\ \E raw \in ChapterLines :
       \E line \in {Strip(raw)} : \E match \in {TimestampMatch(line)} :
          /\ chapter_lines' = Append(chapter_lines, raw)
          /\ IF line = <<>>
             THEN UNCHANGED <<chapters, current_chapter>>
             ELSE IF match # <<>>
             THEN /\ chapters' = chapters \o current_chapter
                  /\ current_chapter' = <<NewChapter(match[1])>>
             ELSE IF current_chapter # <<>>
             THEN /\ current_chapter' =
                         <<AppendDescription(current_chapter[1], line)>>
                  /\ UNCHANGED chapters
             ELSE UNCHANGED <<chapters, current_chapter>>
    /\ UNCHANGED chap_pc
    /\ UNCHANGED notChapVars

\* The end of the listing: the open chapter is appended and the list
\* returned (lines 332-335).
ChapEnd ==
    /\ chap_pc = "loop"
    /\ chapters' = chapters \o current_chapter
    /\ chap_pc' = "done"
    /\ UNCHANGED <<chapter_lines, current_chapter>>
    /\ UNCHANGED notChapVars

ChapNext == ChapStep \/ ChapEnd

SpecChapters == ChapInit /\ [][ChapNext]_vars

(***************************************************************************)
(* Properties of the chapter parser.                                       *)
(***************************************************************************)

\* The indexes of the lines of L the pattern matches.
MatchingIndexes(L) == {i \in 1..Len(L) : TimestampMatch(L[i]) # <<>>}

\* The k-th smallest index of M.
KthIndex(M, k) == CHOOSE m \in M : Cardinality({g \in M : g <= m}) = k

\* The position of the first closing bracket of a line.
CloseAt(line) ==
    CHOOSE i \in 1..Len(line) :
        line[i] = "]" /\ \A j \in 1..(i - 1) : line[j] # "]"

\* What a matching line carries between its brackets, and after them.
Bracketed(line) == SubSeq(line, 2, CloseAt(line) - 1)
Remainder(line) == SubSeq(line, CloseAt(line) + 1, Len(line))

\* C12: parse_chapters returns one chapter per line the timestamp pattern
\* matches, in input order; its timestamp is the bracketed value, its title
\* the trimmed remainder of the line, and its description the non-blank
\* lines between it and the next matching line (or the end), each followed
\* by a space.  Lines before the first matching line are in no chapter.
C12_ChaptersFromLines ==
    chap_pc = "done" =>
        \A L \in {NonBlank(chapter_lines)} : \A M \in {MatchingIndexes(L)} :
           /\ Len(chapters) = Cardinality(M)
           /\ \A k \in 1..Len(chapters) : \A m \in {KthIndex(M, k)} :
                 /\ chapters[k].timestamp = Bracketed(L[m])
                 /\ chapters[k].title = Strip(Remainder(L[m]))
                 /\ chapters[k].description =
                        Flatten([j \in 1..(NextHeader(M, m, Len(L)) - m - 1) |->
                                    L[m + j] \o <<" ">>])

\* The parser has returned two chapters from a listing that starts with a
\* line the pattern does not match, the first chapter having a description
\* of two lines.
C12_Witness ==
    /\ chap_pc = "done"
    /\ Len(chapters) = 2
    /\ TimestampMatch(Strip(chapter_lines[1])) = <<>>
    /\ Strip(chapter_lines[1]) # <<>>
    /\ Len(chapters[1].description) >= 4

(***************************************************************************)
(* The summarization orchestrator, summarizer.py:21-233.  The language     *)
(* model is the environment: each call to it either returns a text or      *)
(* fails, with or without a token-limit message.                           *)
(***************************************************************************)

\* Bound on the number of chunks a long transcript is split into.
MaxChunks == 3

\* self.max_chunk_tokens
max_chunk_tokens == 10000

\* The divisor of the token estimate, len(transcript) // 4.
CharsPerToken == 4

\* The default max_chunk_chars of _split_transcript_into_chunks.
DefaultChunkChars == 40000

\* The styles a caller asks for; "custom" stands for any style other than
\* the three that have prompts.
Styles == {"detailed", "brief", "bullet", "custom"}

\* Lengths of the transcripts given to summarize_transcript.
TranscriptLens == {0, 1, 40000, 40001, 40003, 40004, 120000}

\* The texts the model answers with: of no word, of one and of several.
ModelTexts == { <<>>, <<"one">>, <<"two", " ", "words">> }

PrimaryModel == "gpt-4-turbo-preview"
FallbackModel == "gpt-3.5-turbo"

\* What a call of the primary model can come to: a text, an error whose
\* message mentions the token limit, or any other error.
PrimaryOutcomes ==
    {[kind |-> "ok", text |-> t] : t \in ModelTexts}
        \cup {[kind |-> "token_error", text |-> <<>>],
              [kind |-> "other_error", text |-> <<>>]}

\* What a call of the fallback model can come to.
FallbackOutcomes ==
    {[kind |-> "ok", text |-> t] : t \in ModelTexts}
        \cup {[kind |-> "error", text |-> <<>>]}

\* The texts the model answers with when it summarizes one chunk.
ChunkTexts == { <<>>, <<"one">> }

\* What the two models' calls on one chunk can come to.
ChunkPrimaryOutcomes ==
    {[kind |-> "ok", text |-> t] : t \in ChunkTexts}
        \cup {[kind |-> "token_error", text |-> <<>>],
              [kind |-> "other_error", text |-> <<>>]}

ChunkFallbackOutcomes ==
    {[kind |-> "ok", text |-> t] : t \in ChunkTexts}
        \cup {[kind |-> "error", text |-> <<>>]}

\* An outcome that is an error of whatever message.
AnyError(kind) == kind # "ok"

\* The test of lines 198 and 229 on the error's message:
\* "maximum context length" in error_str or "token" in error_str.lower()
TokenLimitError(kind) == kind = "token_error"

\* _get_prompts(style): the prompt pair used, named by its key.
GetPrompts(s) == IF s \in {"brief", "detailed", "bullet"} THEN s ELSE "detailed"

\* The prompts of a chunk's first attempt (lines 77-82).
ChunkPrompts(s) == IF s = "detailed" THEN GetPrompts("brief") ELSE GetPrompts(s)

\* len(text.split()): the number of maximal runs of non-whitespace.
RECURSIVE WordCountFrom(_, _, _)
WordCountFrom(t, i, inWord) ==
    IF i > Len(t) THEN 0
    ELSE IF t[i] \in Whitespace THEN WordCountFrom(t, i + 1, FALSE)
    ELSE (IF inWord THEN 0 ELSE 1) + WordCountFrom(t, i + 1, TRUE)

\* The number of atoms of a text, separators included.
AtomCount(t) == Len(t)

WordCount(t) == WordCountFrom(t, 1, FALSE)

\* The result of _simple_summary (lines 190-195).
SimpleResult(summary) ==
    [summary |-> summary, style |-> "simple", word_count |-> WordCount(summary),
     sections |-> Put(<<>>, "main", summary)]

\* The result of _simple_summary_with_fallback (lines 163-169).
FallbackResult(summary) ==
    [summary |-> summary, style |-> "simple", word_count |-> WordCount(summary),
     sections |-> Put(<<>>, "main", summary), model |-> FallbackModel]

\* The result of _detailed_summary (lines 218-226).
DetailedResult(summary) ==
    [summary |-> summary, style |-> "detailed",
     word_count |-> WordCount(summary), sections |-> ParseSections(summary)]

\* The result of a primary-model success for the requested style.
PrimaryResult(s, summary) ==
    IF s = "detailed" THEN DetailedResult(summary) ELSE SimpleResult(summary)

\* combined_summary = "\n\n".join(chunk_summaries)
CombinedSummary(summaries) == Join(summaries, <<"\n", "\n">>)

\* The result returned when the final summary fails (lines 111-117).
DegradedWithoutNote(combined, s) ==
    [summary |-> combined, style |-> s, word_count |-> WordCount(combined),
     sections |-> Put(<<>>, "main", combined)]
DegradedResult(combined, s) ==
    [summary |-> combined, style |-> s, word_count |-> WordCount(combined),
     sections |-> Put(<<>>, "main", combined),
     note |-> "This is a concatenation of chunk summaries due to length constraints."]

\* f"[Chunk {i+1} summary failed]", i counting from 0.
PlaceholderText(i) ==
    <<"[Chunk", " ", ToString(i + 1), " ", "summary", " ", "failed]">>

\* chunk_summaries after a chunk whose attempts have all failed (line 92).
FailedChunkSkipped(summaries, i) == summaries
FailedChunkOutput(summaries, i) == Append(summaries, PlaceholderText(i))

\* A record of one call of the model.
Call(unit, index, model, prompts, outcome) ==
    [unit |-> unit, index |-> index, model |-> model, prompts |-> prompts,
     kind |-> outcome.kind, text |-> outcome.text]

\* The quotient of the division rounded up.
RoundedUpTokens(len) == (len + CharsPerToken - 1) \div CharsPerToken

\* estimated_tokens = len(transcript) // 4 (line 29)
EstimatedTokens(len) == len \div CharsPerToken

\* The call summarize_transcript(transcript, style).
SumInit ==
    /\ SplitIdle
    /\ ParseIdle
    /\ TrIdle
    /\ ChapIdle
    /\ LongIdle
    /\ ProcIdle
    /\ RenderIdle
    /\ style \in Styles
    /\ transcript_len \in TranscriptLens
    /\ n_chunks = 0
    /\ chunk_i = 0
    /\ chunk_summaries = <<>>
    /\ calls = <<>>
    /\ sum_result = <<>>
    /\ sum_error = "none"
    /\ sum_pc = "start"

\* summarize_transcript up to its first model call (lines 25-42) and, in
\* chunked mode, the split of line 68.  The split is not computed on a text
\* of this size: the number of chunks is any that a text of this length can
\* give (two neighbouring chunks hold more than max_chunk_chars together).
SummarizeStart ==
    /\ sum_pc = "start"
    /\ LET estimated_tokens == EstimatedTokens(transcript_len)
       IN IF transcript_len = 0
          THEN /\ sum_error' = "ValueError"
               /\ sum_pc' = "done"
               /\ UNCHANGED n_chunks
          ELSE IF estimated_tokens > max_chunk_tokens
          THEN /\ \E n \in 1..MaxChunks :
                     /\ (n \div 2) * DefaultChunkChars < transcript_len
                     /\ n_chunks' = n
               /\ sum_pc' = "chunk_primary"
               /\ UNCHANGED sum_error
          ELSE /\ sum_pc' = "single_primary"
               /\ UNCHANGED <<n_chunks, sum_error>>
    /\ UNCHANGED <<style, transcript_len, chunk_i, chunk_summaries, calls,
                   sum_result>>
    /\ UNCHANGED notSumVars

\* The loop's move to the next chunk, or to the final summary after the last.
AfterChunk ==
    IF chunk_i + 1 < n_chunks
    THEN chunk_i' = chunk_i + 1 /\ sum_pc' = "chunk_primary"
    ELSE chunk_i' = chunk_i /\ sum_pc' = "final_primary"

\* The first attempt on chunk i: _simple_summary with the primary model
\* (lines 76-84 and 175-195).
ChunkPrimary ==
    /\ sum_pc = "chunk_primary"
    /\ \E out \in ChunkPrimaryOutcomes :
          /\ calls' = Append(calls, Call("chunk", chunk_i, PrimaryModel,
                                         ChunkPrompts(style), out))
          /\ CASE out.kind = "ok" ->
                    /\ chunk_summaries' = Append(chunk_summaries, out.text)
                    /\ AfterChunk
               [] TokenLimitError(out.kind) ->
                    /\ sum_pc' = "chunk_inner_fallback"
                    /\ UNCHANGED <<chunk_summaries, chunk_i>>
               [] OTHER ->
                    /\ sum_pc' = "chunk_outer_fallback"
                    /\ UNCHANGED <<chunk_summaries, chunk_i>>
    /\ UNCHANGED <<style, transcript_len, n_chunks, sum_result, sum_error>>
    /\ UNCHANGED notSumVars

\* The retry inside _simple_summary after a token-limit error (lines
\* 199-201): _simple_summary_with_fallback with the same prompts.
ChunkInnerFallback ==
    /\ sum_pc = "chunk_inner_fallback"
    /\ \E out \in ChunkFallbackOutcomes :
          /\ calls' = Append(calls, Call("chunk", chunk_i, FallbackModel,
                                         ChunkPrompts(style), out))
          /\ IF out.kind = "ok"
             THEN /\ chunk_summaries' = Append(chunk_summaries, out.text)
                  /\ AfterChunk
             ELSE /\ sum_pc' = "chunk_outer_fallback"
                  /\ UNCHANGED <<chunk_summaries, chunk_i>>
    /\ UNCHANGED <<style, transcript_len, n_chunks, sum_result, sum_error>>
    /\ UNCHANGED notSumVars

\* The handler of the chunk loop (lines 85-92): whatever _simple_summary
\* raised, _simple_summary_with_fallback is called with the requested
\* style's prompts, and a placeholder stands for the chunk if it fails.
ChunkOuterFallback ==
    /\ sum_pc = "chunk_outer_fallback"
    /\ \E out \in ChunkFallbackOutcomes :
          /\ calls' = Append(calls, Call("chunk", chunk_i, FallbackModel,
                                         GetPrompts(style), out))
          /\ chunk_summaries' =
                IF out.kind = "ok"
                THEN Append(chunk_summaries, out.text)
                ELSE FailedChunkOutput(chunk_summaries, chunk_i)
          /\ AfterChunk
    /\ UNCHANGED <<style, transcript_len, n_chunks, sum_result, sum_error>>
    /\ UNCHANGED notSumVars

\* The final summary of the joined chunk summaries with the primary model
\* (lines 95-117): _detailed_summary or _simple_summary on final_prompt.
FinalPrimary ==
    /\ sum_pc = "final_primary"
    /\ \E out \in PrimaryOutcomes :
          /\ calls' = Append(calls, Call("final", 0, PrimaryModel, "final", out))
          /\ CASE out.kind = "ok" ->
                    /\ sum_result' = <<PrimaryResult(style, out.text)>>
                    /\ sum_pc' = "done"
               [] TokenLimitError(out.kind) ->
                    /\ sum_pc' = "final_fallback"
                    /\ UNCHANGED sum_result
               [] OTHER ->
                    /\ sum_result' =
                          <<DegradedResult(CombinedSummary(chunk_summaries), style)>>
                    /\ sum_pc' = "done"
    /\ UNCHANGED <<style, transcript_len, n_chunks, chunk_i, chunk_summaries,
                   sum_error>>
    /\ UNCHANGED notSumVars

\* The fallback retry of the final summary (lines 201 and 232), and the
\* handler of lines 108-117 when it fails.
FinalFallback ==
    /\ sum_pc = "final_fallback"
    /\ \E out \in FallbackOutcomes :
          /\ calls' = Append(calls, Call("final", 0, FallbackModel, "final", out))
          /\ sum_result' =
                IF out.kind = "ok"
                THEN <<FallbackResult(out.text)>>
                ELSE <<DegradedResult(CombinedSummary(chunk_summaries), style)>>
          /\ sum_pc' = "done"
    /\ UNCHANGED <<style, transcript_len, n_chunks, chunk_i, chunk_summaries,
                   sum_error>>
    /\ UNCHANGED notSumVars

\* Single-shot summarization with the primary model (lines 39-42, 174-202
\* and 204-233).
SinglePrimary ==
    /\ sum_pc = "single_primary"
    /\ \E out \in PrimaryOutcomes :
          /\ calls' = Append(calls, Call("single", 0, PrimaryModel,
                                         GetPrompts(style), out))
          /\ CASE out.kind = "ok" ->
                    /\ sum_result' = <<PrimaryResult(style, out.text)>>
                    /\ sum_pc' = "done"
                    /\ UNCHANGED sum_error
               [] TokenLimitError(out.kind) ->
                    /\ sum_pc' = "single_fallback"
                    /\ UNCHANGED <<sum_result, sum_error>>
               [] OTHER ->
                    /\ sum_error' = "Summarization failed"
                    /\ sum_pc' = "done"
                    /\ UNCHANGED sum_result
    /\ UNCHANGED <<style, transcript_len, n_chunks, chunk_i, chunk_summaries>>
    /\ UNCHANGED notSumVars

\* The fallback retry of a single-shot summarization (lines 146-172).
SingleFallback ==
    /\ sum_pc = "single_fallback"
    /\ \E out \in FallbackOutcomes :
          /\ calls' = Append(calls, Call("single", 0, FallbackModel,
                                         GetPrompts(style), out))
          /\ IF out.kind = "ok"
             THEN /\ sum_result' = <<FallbackResult(out.text)>>
                  /\ UNCHANGED sum_error
             ELSE /\ sum_error' = "Fallback summarization also failed"
                  /\ UNCHANGED sum_result
          /\ sum_pc' = "done"
    /\ UNCHANGED <<style, transcript_len, n_chunks, chunk_i, chunk_summaries>>
    /\ UNCHANGED notSumVars

SumNext ==
    \/ SummarizeStart
    \/ ChunkPrimary
    \/ ChunkInnerFallback
    \/ ChunkOuterFallback
    \/ FinalPrimary
    \/ FinalFallback
    \/ SinglePrimary
    \/ SingleFallback

SpecSum == SumInit /\ [][SumNext]_vars

(***************************************************************************)
(* Properties of the summarization orchestrator.                           *)
(***************************************************************************)

\* The calls made for one unit of work: chunk i (counted from 0) of the
\* chunk loop, the final recombination, or a single-shot summarization.
CallsOf(unit, index) ==
    {k \in 1..Len(calls) : calls[k].unit = unit /\ calls[k].index = index}

FallbackCallsOf(unit, index) ==
    {k \in CallsOf(unit, index) : calls[k].model = FallbackModel}

\* The unit's primary-model call failed and so did every fallback call made
\* for it, of which there is at least one.
FailedOnBothModels(unit, index) ==
    /\ \E k \in CallsOf(unit, index) : calls[k].model = PrimaryModel
    /\ FallbackCallsOf(unit, index) # {}
    /\ \A k \in CallsOf(unit, index) : calls[k].kind # "ok"

\* Chunked mode, with every chunk processed.
ChunksProcessed ==
    n_chunks > 0 /\ sum_pc \in {"final_primary", "final_fallback", "done"}

\* C1: in chunked mode, whatever chunks fail on both models, the list of
\* chunk outputs has one entry per chunk in chunk order: the placeholder
\* naming the chunk (counted from 1) for a chunk that failed on both models,
\* the model's own summary for every other chunk; every chunk is attempted,
\* also after a failed one, and summarize does not raise.
C1_ChunkFailureIsolated ==
    /\ n_chunks > 0 => sum_error = "none"
    /\ ChunksProcessed =>
          /\ Len(chunk_summaries) = n_chunks
          /\ \A i \in 0..(n_chunks - 1) :
                /\ CallsOf("chunk", i) # {}
                /\ IF FailedOnBothModels("chunk", i)
                   THEN chunk_summaries[i + 1] =
                           <<"[Chunk", " ", ToString(i + 1), " ", "summary",
                             " ", "failed]">>
                   ELSE \E k \in CallsOf("chunk", i) :
                           /\ calls[k].kind = "ok"
                           /\ chunk_summaries[i + 1] = calls[k].text

\* Chunk 2 of 3 has failed on both models, chunks 1 and 3 have not, and the
\* two genuine summaries differ.
C1_Witness ==
    /\ ChunksProcessed
    /\ n_chunks = 3
    /\ FailedOnBothModels("chunk", 1)
    /\ ~FailedOnBothModels("chunk", 0)
    /\ ~FailedOnBothModels("chunk", 2)
    /\ Len(chunk_summaries) = 3
    /\ chunk_summaries[1] # chunk_summaries[3]

\* The units of work a call of summarize has.
Units ==
    {<<"chunk", i>> : i \in 0..(MaxChunks - 1)} \cup {<<"final", 0>>, <<"single", 0>>}

\* C2: for every unit of work the fallback model is called at most once,
\* and after a failed fallback attempt no further model call is made for
\* that unit.
C2_OneFallbackPerUnit ==
    \A u \in Units :
        /\ Cardinality(FallbackCallsOf(u[1], u[2])) <= 1
        /\ \A k \in FallbackCallsOf(u[1], u[2]) :
              calls[k].kind # "ok" => \A j \in CallsOf(u[1], u[2]) : j <= k

\* The final recombination has failed: no call made for it returned a text.
RecombinationFailed ==
    /\ CallsOf("final", 0) # {}
    /\ \A k \in CallsOf("final", 0) : calls[k].kind # "ok"

\* C3: in chunked mode summarize never raises, and when the final
\* recombination fails it returns the chunk outputs joined with a blank line,
\* with a note field flagging the degraded output.
C3_RecombinationDegrades ==
    /\ n_chunks > 0 => sum_error = "none"
    /\ (n_chunks > 0 /\ sum_pc = "done") => Len(sum_result) = 1
    /\ (sum_pc = "done" /\ RecombinationFailed) =>
          /\ Len(sum_result) = 1
          /\ sum_result[1].summary = Join(chunk_summaries, <<"\n", "\n">>)
          /\ "note" \in DOMAIN sum_result[1]

\* Every model call of a chunked run has failed and summarize has returned.
C3_Witness ==
    /\ sum_pc = "done"
    /\ n_chunks >= 2
    /\ RecombinationFailed
    /\ \A k \in 1..Len(calls) : calls[k].kind # "ok"
    /\ Len(sum_result) = 1

\* The whitespace-delimited tokens of a text, each by the position where it
\* starts.
TokenStarts(t) ==
    {i \in 1..Len(t) :
        t[i] \notin Whitespace /\ (i = 1 \/ t[i - 1] \in Whitespace)}

\* summarize has returned a result.
Returned == sum_pc = "done" /\ Len(sum_result) = 1

\* The path a returned result came by.
ReturnPath ==
    IF "note" \in DOMAIN sum_result[1] THEN "degraded"
    ELSE IF "model" \in DOMAIN sum_result[1] THEN "fallback"
    ELSE IF n_chunks > 0 THEN "recombined"
    ELSE "primary"

\* C13: the word_count of every result summarize returns, by whichever
\* path, is the number of whitespace-delimited tokens of that result's
\* summary.
C13_WordCountOfSummary ==
    Returned =>
        sum_result[1].word_count = Cardinality(TokenStarts(sum_result[1].summary))

\* summarize has returned the degraded concatenation of a chunk summary of
\* no word, one of one word and a placeholder: five words.
C13_Witness ==
    /\ Returned
    /\ ReturnPath = "degraded"
    /\ \E i, j \in 1..Len(chunk_summaries) :
          chunk_summaries[i] = <<>> /\ chunk_summaries[j] = <<"one">>
    /\ sum_result[1].word_count = 5

\* The calls of the primary model for the single-shot summarization that
\* came to an outcome of the given kind.
SinglePrimaryCalls(kind) ==
    {k \in CallsOf("single", 0) :
        calls[k].model = PrimaryModel /\ calls[k].kind = kind}

\* C16: in single-shot summarization the fallback model is called only
\* after a token-limit error of the primary model, and then once; when that
\* call fails summarize raises; after any other error of the primary model
\* summarize raises without a call of the fallback model.
C16_FallbackOnlyOnTokenError ==
    /\ Cardinality(FallbackCallsOf("single", 0)) <= 1
    /\ \A k \in FallbackCallsOf("single", 0) :
          k = 2 /\ SinglePrimaryCalls("token_error") = {1}
    /\ (sum_pc = "done" /\ SinglePrimaryCalls("token_error") # {}) =>
          /\ Cardinality(FallbackCallsOf("single", 0)) = 1
          /\ \A k \in FallbackCallsOf("single", 0) :
                calls[k].kind # "ok" =>
                    /\ sum_error = "Fallback summarization also failed"
                    /\ sum_result = <<>>
    /\ SinglePrimaryCalls("other_error") # {} =>
          /\ sum_pc = "done"
          /\ Len(calls) = 1
          /\ sum_error = "Summarization failed"
          /\ sum_result = <<>>

\* A single-shot summarization has raised after a token-limit error of the
\* primary model and a failure of the fallback model.
C16_Witness ==
    /\ sum_pc = "done"
    /\ SinglePrimaryCalls("token_error") = {1}
    /\ FallbackCallsOf("single", 0) = {2}
    /\ calls[2].kind = "error"
    /\ sum_error = "Fallback summarization also failed"

\* summarize has taken the single-shot path, or the chunked one: every
\* model call it makes is of that path.
SingleShot ==
    /\ n_chunks = 0
    /\ sum_pc \in {"single_primary", "single_fallback", "done"}
    /\ \A k \in 1..Len(calls) : calls[k].unit = "single"

Chunked ==
    /\ n_chunks > 0
    /\ \A k \in 1..Len(calls) : calls[k].unit \in {"chunk", "final"}

\* The empty transcript is refused before any model call.
EmptyRefused ==
    (transcript_len = 0 /\ sum_pc # "start") =>
        /\ sum_pc = "done"
        /\ sum_error = "ValueError"
        /\ calls = <<>>
        /\ sum_result = <<>>

\* C17 as stated: a non-empty transcript is summarized in one shot exactly
\* when its length divided by 4 is at most 10,000, that is when the length is
\* at most 40,000, and in chunks exactly when the quotient exceeds 10,000.
C17_ExactQuotient ==
    /\ EmptyRefused
    /\ (transcript_len > 0 /\ sum_pc # "start") =>
          IF transcript_len <= 4 * 10000 THEN SingleShot ELSE Chunked

\* C17, amended: the quotient is rounded down.  A non-empty transcript is
\* summarized in one shot exactly when its length is below 4 * 10,001, and in
\* chunks from 40,004 characters on; the empty transcript is refused before
\* any model call.
C17_RoundedDownQuotient ==
    /\ EmptyRefused
    /\ (transcript_len > 0 /\ sum_pc # "start") =>
          IF transcript_len < 4 * (10000 + 1) THEN SingleShot ELSE Chunked

\* A transcript of 40,003 characters has been summarized in one shot.
C17_Witness ==
    /\ transcript_len = 40003
    /\ sum_pc = "done"
    /\ SingleShot
    /\ Len(calls) >= 1

\* C18: in chunked mode every call made for a chunk, by the primary model
\* or by the fallback model, uses the prompts of the brief style, whatever
\* the requested style; the requested style shows in the final recombination
\* only.
C18_ChunksUseBrief ==
    \A k \in 1..Len(calls) :
        calls[k].unit = "chunk" => calls[k].prompts = "brief"

\* C20: a result returned for the requested style detailed has the style
\* detailed and the sections the section parser gives for its summary; a
\* result returned for any other requested style has the one section main
\* holding its summary; the style of every result is detailed or simple.
C20_StyleAndSections ==
    Returned =>
        /\ sum_result[1].style \in {"detailed", "simple"}
        /\ IF style = "detailed"
           THEN /\ sum_result[1].style = "detailed"
                /\ sum_result[1].sections = ParseSections(sum_result[1].summary)
           ELSE /\ DOMAIN sum_result[1].sections = {"main"}
                /\ sum_result[1].sections["main"] = sum_result[1].summary

(***************************************************************************)
(* The chunked summarizer on a very long transcript, summarizer.py:66-107,  *)
(* with every text taken by its length in characters.                      *)
(***************************************************************************)

\* Bound on the number of chunks of a very long transcript.
MaxLongChunks == 21

\* The lengths of the summary of one chunk: an empty answer, and answers of
\* the 300 and of the 500 tokens that max_tokens allows (lines 80 and 82) at
\* four characters a token.
SummaryLens == {0, 1200, 2000}

\* len("\n\n"), the separator of line 95.
SeparatorLen == 2

\* _summarize_chunked_transcript after the split of line 68.
LongInit ==
    /\ SplitIdle
    /\ ParseIdle
    /\ SumIdle
    /\ TrIdle
    /\ ChapIdle
    /\ ProcIdle
    /\ RenderIdle
    /\ long_chunks \in 1..MaxLongChunks
    /\ long_i = 0
    /\ combined_len = 0
    /\ final_len = 0
    /\ final_mode = "none"
    /\ long_pc = "chunks"

\* One iteration of the chunk loop (lines 73-92): a summary of some length
\* is appended; combined_len is the length of the summaries joined so far.
LongChunk ==
    /\ long_pc = "chunks"
    /\ long_i < long_chunks
    /\ \E len \in SummaryLens :
          combined_len' =
              combined_len + (IF long_i > 0 THEN SeparatorLen ELSE 0) + len
    /\ long_i' = long_i + 1
    /\ UNCHANGED <<long_chunks, final_len, final_mode, long_pc>>
    /\ UNCHANGED notLongVars

\* The final summary (lines 95-107): _detailed_summary or _simple_summary is
\* called on the joined summaries, in one model call.
LongFinal ==
    /\ long_pc = "chunks"
    /\ long_i = long_chunks
    /\ final_len' = combined_len
    /\ final_mode' = "single"
    /\ long_pc' = "done"
    /\ UNCHANGED <<long_chunks, long_i, combined_len>>
    /\ UNCHANGED notLongVars

LongNext == LongChunk \/ LongFinal

SpecLong == LongInit /\ [][LongNext]_vars

\* C19: the joined chunk summaries go through the size decision of a
\* top-level call, so the recombination is never one model call on a text
\* whose estimate, a quarter of its length, exceeds 10,000 tokens.
C19_RecombinationSized ==
    (long_pc = "done" /\ final_mode = "single") => final_len \div 4 <= 10000

(***************************************************************************)
(* The transcription orchestrator, transcription.py:18-92.  The            *)
(* speech-to-text service and the audio library are the environment: a     *)
(* transcription returns a text with its time-segments or fails, and the   *)
(* load and the export of audio can fail.                                  *)
(***************************************************************************)

\* Bound on the number of 10-minute segments of an audio asset.
MaxAudioChunks == 3

\* self.max_file_size_mb
max_file_size_mb == 25

\* Bytes in a megabyte, the divisor of line 22.
BytesPerMb == 1048576

\* chunk_length_ms = 10 * 60 * 1000
chunk_length_ms == 600000

\* Milliseconds in a second, the divisor of lines 77 and 91.
MsPerSecond == 1000

\* Sizes in bytes of the audio assets: at the limit and just above it.
AudioSizes == {max_file_size_mb * BytesPerMb, max_file_size_mb * BytesPerMb + 1}

\* Lengths in milliseconds of the audio assets: for each number of segments,
\* the shortest and the longest audio that gives it.
AudioLens ==
    UNION {{(n - 1) * chunk_length_ms + 1, n * chunk_length_ms} :
              n \in 1..MaxAudioChunks}

\* The texts a transcription returns.
SpokenTexts == { <<"hello">>, <<"more", " ", "talk">> }

\* The time-segment lists a transcription returns, in seconds from the start
\* of the file transcribed: none, one, two in order, and one that runs past
\* the 10 minutes of a segment.
SegmentLists ==
    { <<>>,
      <<[start |-> 0, end |-> 5]>>,
      <<[start |-> 0, end |-> 5], [start |-> 5, end |-> 600]>>,
      <<[start |-> 590, end |-> 610]>> }

\* What _transcribe_single_file can come to.  Of the result's fields the
\* text and the segments are kept; language and duration are passed through
\* untouched by the code and are left out.
TranscriptionOutcomes ==
    {[ok |-> TRUE, text |-> t, segments |-> g] :
        t \in SpokenTexts, g \in SegmentLists}
        \cup {[ok |-> FALSE, text |-> <<>>, segments |-> <<>>]}

\* time_offset = (i * chunk_length_ms) / 1000
NoTimeOffset(i) == 0
TimeOffset(i) == (i * chunk_length_ms) \div MsPerSecond

\* segment["start"] += time_offset; segment["end"] += time_offset
OffsetSegment(segment, time_offset) ==
    [start |-> segment.start + time_offset, end |-> segment.end + time_offset]

\* The segments of chunk i appended to all_segments (lines 76-81).
AppendSegments(segs, new, i) ==
    segs \o [j \in 1..Len(new) |-> OffsetSegment(new[j], TimeOffset(i))]

\* The finally block of lines 82-85: every chunk file that exists is removed.
RemoveChunkFiles(fs, paths) == fs \ {paths[j] : j \in 1..Len(paths)}

\* The call transcribe_audio(audio_path, language).
TrInit ==
    /\ SplitIdle
    /\ ParseIdle
    /\ SumIdle
    /\ ChapIdle
    /\ LongIdle
    /\ ProcIdle
    /\ RenderIdle
    /\ audio_exists \in BOOLEAN
    /\ audio_size \in AudioSizes
    /\ audio_len \in AudioLens
    /\ audio_chunks = <<>>
    /\ files = {}
    /\ reported = <<>>
    /\ full_transcript = <<>>
    /\ all_segments = <<>>
    /\ tr_result = <<>>
    /\ tr_error = "none"
    /\ tr_pc = "start"

\* transcribe_audio up to the choice of path (lines 19-28) and, for a file
\* above the limit, the load of the audio (line 57), which can fail.
TranscribeStart ==
    /\ tr_pc = "start"
    /\ IF ~audio_exists
       THEN tr_error' = "FileNotFoundError" /\ tr_pc' = "done"
       ELSE IF audio_size <= max_file_size_mb * BytesPerMb
       THEN tr_pc' = "single" /\ UNCHANGED tr_error
       ELSE \/ tr_pc' = "export" /\ UNCHANGED tr_error
            \/ tr_error' = "load failed" /\ tr_pc' = "done"
    /\ UNCHANGED <<audio_exists, audio_size, audio_len, audio_chunks, files,
                   reported, full_transcript, all_segments, tr_result>>
    /\ UNCHANGED notTrVars

\* The transcription of a file within the limit (lines 25 and 30-54).
TranscribeSingle ==
    /\ tr_pc = "single"
    /\ \E out \in TranscriptionOutcomes :
          /\ reported' = Append(reported, out)
          /\ IF out.ok
             THEN /\ tr_result' = <<[text |-> out.text, segments |-> out.segments]>>
                  /\ UNCHANGED tr_error
             ELSE /\ tr_error' = "Transcription failed"
                  /\ UNCHANGED tr_result
    /\ tr_pc' = "done"
    /\ UNCHANGED <<audio_exists, audio_size, audio_len, audio_chunks, files,
                   full_transcript, all_segments>>
    /\ UNCHANGED notTrVars

\* One iteration of the export loop (lines 61-65): chunk number
\* Len(audio_chunks) is cut and written to chunk_<number>.mp3.  A failed
\* export raises out of _transcribe_chunked, with or without having created
\* its file.
ExportChunk ==
    /\ tr_pc = "export"
    /\ Len(audio_chunks) * chunk_length_ms < audio_len
    /\ LET number == Len(audio_chunks)
       IN \/ /\ files' = files \cup {number}
             /\ audio_chunks' = Append(audio_chunks, number)
             /\ UNCHANGED <<tr_error, tr_pc>>
          \/ /\ files' \in {files, files \cup {number}}
             /\ tr_error' = "export failed"
             /\ tr_pc' = "done"
             /\ UNCHANGED audio_chunks
    /\ UNCHANGED <<audio_exists, audio_size, audio_len, reported,
                   full_transcript, all_segments, tr_result>>
    /\ UNCHANGED notTrVars

\* The end of the export loop: range(0, len(audio), chunk_length_ms) is
\* exhausted and the transcription loop is entered (lines 67-71).
ExportDone ==
    /\ tr_pc = "export"
    /\ Len(audio_chunks) * chunk_length_ms >= audio_len
    /\ tr_pc' = "transcribe"
    /\ UNCHANGED <<audio_exists, audio_size, audio_len, audio_chunks, files,
                   reported, full_transcript, all_segments, tr_result, tr_error>>
    /\ UNCHANGED notTrVars

\* One iteration of the transcription loop (lines 71-81) on chunk number
\* Len(full_transcript).  A failure leaves through the finally block; after
\* the last chunk the finally block runs and the result is returned (lines
\* 82-92).
TranscribeChunk ==
    /\ tr_pc = "transcribe"
    /\ Len(full_transcript) < Len(audio_chunks)
    /\ LET i == Len(full_transcript)
       IN \E out \in TranscriptionOutcomes :
             /\ reported' = Append(reported, out)
             /\ IF ~out.ok
                THEN /\ files' = RemoveChunkFiles(files, audio_chunks)
                     /\ tr_error' = "Transcription failed"
                     /\ tr_pc' = "done"
                     /\ UNCHANGED <<full_transcript, all_segments, tr_result>>
                ELSE /\ full_transcript' = Append(full_transcript, out.text)
                     /\ all_segments' = AppendSegments(all_segments, out.segments, i)
                     /\ UNCHANGED tr_error
                     /\ IF i + 1 < Len(audio_chunks)
                        THEN UNCHANGED <<files, tr_result, tr_pc>>
                        ELSE /\ files' = RemoveChunkFiles(files, audio_chunks)
                             /\ tr_result' =
                                   <<[text |-> Join(full_transcript', <<" ">>),
                                      segments |-> all_segments']>>
                             /\ tr_pc' = "done"
    /\ UNCHANGED <<audio_exists, audio_size, audio_len, audio_chunks>>
    /\ UNCHANGED notTrVars

TrNext ==
    \/ TranscribeStart
    \/ TranscribeSingle
    \/ ExportChunk
    \/ ExportDone
    \/ TranscribeChunk

SpecTranscribe == TrInit /\ [][TrNext]_vars

(***************************************************************************)
(* Properties of the transcription orchestrator.                           *)
(***************************************************************************)

\* The call went the chunked way and has returned.
ChunkedReturned ==
    tr_pc = "done" /\ Len(tr_result) = 1 /\ audio_chunks # <<>>

\* C4: on every exit path of transcribe for an audio asset above the size
\* threshold, none of the per-segment audio files the call created exists
\* once the call has returned or raised.
C4_NoChunkFileLeft ==
    tr_pc = "done" => files = {}

\* A list of time-segments moved later by a number of seconds.
Shifted(segs, seconds) ==
    [j \in 1..Len(segs) |->
        [start |-> segs[j].start + seconds, end |-> segs[j].end + seconds]]

\* Start is not after end, and no segment starts before the one before ends.
TimeOrdered(segs) ==
    /\ \A j \in 1..Len(segs) : segs[j].start <= segs[j].end
    /\ \A j \in 1..(Len(segs) - 1) : segs[j].end <= segs[j + 1].start

\* Every segment lies within the 600 seconds of one chunk.
WithinChunk(segs) ==
    \A j \in 1..Len(segs) : segs[j].start >= 0 /\ segs[j].end <= 600

\* C5: the combined segment list is the concatenation, in chunk order, of
\* each chunk's reported time-segments with chunk index x 600 seconds added
\* to start and end; the combined text is the chunks' texts joined by single
\* spaces; and the combined list is time-ordered whenever each chunk's own
\* segments are ordered and lie within [0, 600].
C5_Reassembly ==
    ChunkedReturned =>
        /\ Len(reported) = Len(audio_chunks)
        /\ tr_result[1].segments =
              Flatten([i \in 1..Len(reported) |->
                          Shifted(reported[i].segments, (i - 1) * 600)])
        /\ tr_result[1].text =
              Join([i \in 1..Len(reported) |-> reported[i].text], <<" ">>)
        /\ (\A i \in 1..Len(reported) :
                TimeOrdered(reported[i].segments) /\ WithinChunk(reported[i].segments))
              => TimeOrdered(tr_result[1].segments)

\* Three chunks each reporting [0,5] have given [0,5], [600,605], [1200,1205].
C5_Witness ==
    /\ ChunkedReturned
    /\ Len(reported) = 3
    /\ \A i \in 1..3 : reported[i].segments = <<[start |-> 0, end |-> 5]>>
    /\ tr_result[1].segments =
          << [start |-> 0, end |-> 5], [start |-> 600, end |-> 605],
             [start |-> 1200, end |-> 1205] >>

(***************************************************************************)
(* The pipeline, main.py:28-144: VideoSummarizer.process with its cleanup  *)
(* of temporary files, the input handling of video_handler.py:15-88, the    *)
(* audio extraction of audio_processor.py:19-49 and the audio summary of    *)
(* output_generator.py:143-175.  The transcription is the model above; the  *)
(* download, ffmpeg, the summarizer, the file system and the speech         *)
(* synthesis are the environment.                                          *)
(***************************************************************************)

\* The inputs given to process: a YouTube URL, a YouTube URL with shell
\* escapes or URL encoding in its scheme (https:\/\/youtu.be/...), the path
\* of a video file that exists, and a path that does not exist.
InputPaths == {"url", "escaped_url", "file", "missing"}

\* clean_url: backslashes and %5C are removed, the URL is decoded and
\* stripped.
CleanUrl(input) == IF input = "escaped_url" THEN "url" ELSE input

\* is_youtube_url: the pattern matches at the start of the string as given.
IsYoutubeUrl(input) == input = "url"

\* The files of the run: the user's own video, the downloaded video and the
\* extracted audio; the chunk files of the transcription are in files.
LocalVideo == "local_video"
Download == "download"
Audio == "audio"

\* _cleanup_temp_files (lines 110-119) on the set of files that exist.
CleanupTempFiles(d, vp, ap, original_input) ==
    (IF IsYoutubeUrl(original_input) THEN d \ {vp} ELSE d) \ {ap}

\* _cleanup_on_error (lines 121-141) on the set of files that exist; it
\* also removes every chunk file.
CleanupOnError(d, vp, ap, original_input) ==
    LET d1 == IF vp # "none" /\ IsYoutubeUrl(original_input) THEN d \ {vp} ELSE d
    IN IF ap # "none" THEN d1 \ {ap} ELSE d1

\* The finally block of process (lines 100-108) with the paths vp and ap,
\* on the files d that exist when it is entered.
Finally(vp, ap, d) ==
    IF vp # "none" /\ ap # "none"
    THEN /\ disk' = CleanupTempFiles(d, vp, ap, input_path)
         /\ files' = files
    ELSE IF vp # "none"
    THEN /\ disk' = CleanupOnError(d, vp, "none", input_path)
         /\ files' = {}
    ELSE IF ap # "none"
    THEN /\ disk' = CleanupOnError(d, "none", ap, input_path)
         /\ files' = {}
    ELSE /\ disk' = d
         /\ files' = files

\* An exception leaves process: the handler of lines 96-98 re-raises it and
\* the finally block runs.
Raise(error, vp, ap, d) ==
    /\ proc_error' = error
    /\ proc_pc' = "raised"
    /\ Finally(vp, ap, d)

\* The call process(input_path, generate_audio=...), up to the try block
\* (lines 36-38).
ProcInit ==
    /\ SplitIdle
    /\ ParseIdle
    /\ SumIdle
    /\ TrIdle
    /\ ChapIdle
    /\ LongIdle
    /\ RenderIdle
    /\ input_path \in InputPaths
    /\ generate_audio \in BOOLEAN
    /\ has_client \in BOOLEAN
    /\ video_path = "none"
    /\ audio_path = "none"
    /\ disk = IF input_path = "file" THEN {LocalVideo} ELSE {}
    /\ outputs = {}
    /\ synthesis = "not_called"
    /\ proc_result = <<>>
    /\ proc_error = "none"
    /\ proc_pc = "input"

\* Step 1 (lines 41-44): process_input cleans the input, downloads the video
\* of a YouTube URL or takes the local file (video_handler.py:73-88).
ProcInput ==
    /\ proc_pc = "input"
    /\ IF IsYoutubeUrl(CleanUrl(input_path))
       THEN \/ /\ video_path' = Download
               /\ disk' = disk \cup {Download}
               /\ proc_pc' = "extract"
               /\ UNCHANGED <<proc_error, files>>
            \/ /\ Raise("Failed to download video", "none", "none", disk)
               /\ UNCHANGED video_path
       ELSE IF CleanUrl(input_path) = "file"
       THEN /\ video_path' = LocalVideo
            /\ proc_pc' = "extract"
            /\ UNCHANGED <<disk, proc_error, files>>
       ELSE /\ Raise("ValueError", "none", "none", disk)
            /\ UNCHANGED video_path
    /\ UNCHANGED <<input_path, generate_audio, has_client, audio_path, outputs,
                   synthesis, proc_result>>
    /\ UNCHANGED trFrame
    /\ UNCHANGED notPipelineVars

\* Step 2 (lines 46-48): extract_audio writes the audio file with ffmpeg
\* (audio_processor.py:19-49).  A failed extraction raises, with or without
\* having created its output file; audio_path is then still None.
ProcExtract ==
    /\ proc_pc = "extract"
    /\ \/ /\ audio_path' = Audio
          /\ disk' = disk \cup {Audio}
          /\ proc_pc' = "transcribe"
          /\ UNCHANGED <<proc_error, files>>
       \/ /\ \E d \in {disk, disk \cup {Audio}} :
                Raise("Failed to extract audio", video_path, "none", d)
          /\ UNCHANGED audio_path
    /\ UNCHANGED <<input_path, generate_audio, has_client, video_path, outputs,
                   synthesis, proc_result>>
    /\ UNCHANGED trFrame
    /\ UNCHANGED notPipelineVars

\* Step 3 (lines 50-52): the call transcribe_audio(audio_path, language) on
\* the extracted audio, of a size at or above the limit.
ProcTranscribe ==
    /\ proc_pc = "transcribe"
    /\ audio_exists' = (audio_path \in disk)
    /\ audio_size' \in AudioSizes
    /\ audio_len' \in AudioLens
    /\ tr_pc' = "start"
    /\ proc_pc' = "transcribing"
    /\ UNCHANGED <<audio_chunks, files, reported, full_transcript, all_segments,
                   tr_result, tr_error>>
    /\ UNCHANGED <<input_path, generate_audio, has_client, video_path,
                   audio_path, disk, outputs, synthesis, proc_result,
                   proc_error>>
    /\ UNCHANGED notPipelineVars

\* The locals of transcribe_audio are gone once it has returned or raised;
\* the chunk files it has left are not.
DiscardTrFrame ==
    /\ audio_exists' = FALSE
    /\ audio_size' = 0
    /\ audio_len' = 0
    /\ audio_chunks' = <<>>
    /\ reported' = <<>>
    /\ full_transcript' = <<>>
    /\ all_segments' = <<>>
    /\ tr_result' = <<>>
    /\ tr_error' = "none"
    /\ tr_pc' = "idle"

\* transcribe_audio has returned its result to process, or raised.
ProcTranscribed ==
    /\ proc_pc = "transcribing"
    /\ tr_pc = "done"
    /\ DiscardTrFrame
    /\ IF tr_error = "none"
       THEN /\ proc_pc' = "summarize"
            /\ UNCHANGED <<disk, files, proc_error>>
       ELSE Raise(tr_error, video_path, audio_path, disk)
    /\ UNCHANGED <<input_path, generate_audio, has_client, video_path,
                   audio_path, outputs, synthesis, proc_result>>
    /\ UNCHANGED notPipelineVars

\* Step 4 (lines 54-59): summarize_transcript returns a summary or raises.
ProcSummarize ==
    /\ proc_pc = "summarize"
    /\ \/ /\ proc_pc' = "markdown"
          /\ UNCHANGED <<disk, files, proc_error>>
       \/ Raise("Summarization failed", video_path, audio_path, disk)
    /\ UNCHANGED <<input_path, generate_audio, has_client, video_path,
                   audio_path, outputs, synthesis, proc_result>>
    /\ UNCHANGED trFrame
    /\ UNCHANGED notPipelineVars

\* The return of lines 90-94, through the finally block.
Return(result) ==
    /\ proc_result' = <<result>>
    /\ proc_pc' = "returned"
    /\ Finally(video_path, audio_path, disk)
    /\ UNCHANGED proc_error

\* Step 6 (lines 65-74): generate_markdown writes the markdown file or
\* raises; without generate_audio process returns (lines 76-94).
ProcMarkdown ==
    /\ proc_pc = "markdown"
    /\ \/ /\ outputs' = outputs \cup {"markdown"}
          /\ IF generate_audio
             THEN /\ proc_pc' = "audio"
                  /\ UNCHANGED <<disk, files, proc_error, proc_result>>
             ELSE Return([markdown_path |-> "markdown", audio_path |-> "none"])
       \/ /\ Raise("Markdown not written", video_path, audio_path, disk)
          /\ UNCHANGED <<outputs, proc_result>>
    /\ UNCHANGED <<input_path, generate_audio, has_client, video_path,
                   audio_path, synthesis>>
    /\ UNCHANGED trFrame
    /\ UNCHANGED notPipelineVars

\* What the speech synthesis call can come to.
SynthesisOutcomes == {"ok", "failed"}

\* generate_audio_summary that lets the error of the synthesis call through.
SynthesisErrorRaised(client, outcome) ==
    [raised |-> client /\ outcome = "failed",
     path |-> IF client /\ outcome = "ok" THEN "audio_summary" ELSE "none"]

\* generate_audio_summary (output_generator.py:143-175): None without a
\* client (lines 149-151), the path of the audio file it has written, or
\* None when anything in its try block raises (lines 173-175).
GenerateAudioSummary(client, outcome) ==
    [raised |-> FALSE,
     path |-> IF client /\ outcome = "ok" THEN "audio_summary" ELSE "none"]

\* Step 7 (lines 76-94): the audio summary, and the return of process.
ProcAudioSummary ==
    /\ proc_pc = "audio"
    /\ \E outcome \in SynthesisOutcomes :
       \E r \in {GenerateAudioSummary(has_client, outcome)} :
          /\ synthesis' = IF has_client THEN outcome ELSE "no_client"
          /\ IF r.raised
             THEN /\ Raise("Synthesis failed", video_path, audio_path, disk)
                  /\ UNCHANGED <<outputs, proc_result>>
             ELSE /\ outputs' =
                        outputs \cup (IF r.path = "none" THEN {} ELSE {r.path})
                  /\ Return([markdown_path |-> "markdown", audio_path |-> r.path])
    /\ UNCHANGED <<input_path, generate_audio, has_client, video_path,
                   audio_path>>
    /\ UNCHANGED trFrame
    /\ UNCHANGED notPipelineVars

ProcNext ==
    \/ ProcInput
    \/ ProcExtract
    \/ ProcTranscribe
    \/ TranscribeStart
    \/ TranscribeSingle
    \/ ExportChunk
    \/ ExportDone
    \/ TranscribeChunk
    \/ ProcTranscribed
    \/ ProcSummarize
    \/ ProcMarkdown
    \/ ProcAudioSummary

SpecProcess == ProcInit /\ [][ProcNext]_vars

(***************************************************************************)
(* Properties of the pipeline.                                             *)
(***************************************************************************)

\* C14: when process raises after the video was acquired, no temporary file
\* of the run exists any more: not the downloaded video, not the extracted
\* audio, not a chunk file of the transcription; and the user's own video
\* file is never deleted.
C14_NoTemporaryFileLeft ==
    /\ input_path = "file" => LocalVideo \in disk
    /\ (proc_pc = "raised" /\ video_path # "none") =>
          /\ Download \notin disk
          /\ Audio \notin disk
          /\ files = {}

\* C15: when the synthesis call fails, or the output generator has no
\* client, process does not raise: it returns the path of the markdown file
\* it has written and no audio path.
C15_SynthesisFailureIsSoft ==
    synthesis \in {"failed", "no_client"} =>
        /\ proc_pc = "returned"
        /\ proc_error = "none"
        /\ Len(proc_result) = 1
        /\ proc_result[1].audio_path = "none"
        /\ proc_result[1].markdown_path = "markdown"
        /\ "markdown" \in outputs
        /\ "audio_summary" \notin outputs

\* process has returned after a synthesis call that failed, on a downloaded
\* video: the markdown file is written and there is no audio path.
C15_Witness ==
    /\ proc_pc = "returned"
    /\ synthesis = "failed"
    /\ has_client
    /\ video_path = Download
    /\ proc_result[1].audio_path = "none"
    /\ "markdown" \in outputs

(***************************************************************************)
(* The markdown renderer on the results of the summarizer,                 *)
(* output_generator.py:86-124: the summary sections and the statistics     *)
(* block of _build_markdown_content.  The document is the list lines, each *)
(* entry a text; the title, the metadata, the table of contents and the    *)
(* transcript, which do not depend on the summary, are left out.           *)
(***************************************************************************)

\* sections.get(key): the section is there and its text is not empty.
HasSection(secs, key) == key \in DOMAIN secs /\ secs[key] # <<>>

\* The entries of one section: its heading, a blank entry, its text and a
\* blank entry (lines 90-112), or none when the section is missing.
SectionEntries(secs, key, heading) ==
    IF HasSection(secs, key) THEN <<<<heading>>, <<>>, secs[key], <<>>>> ELSE <<>>

\* The summary sections of the document (lines 86-117).
SummaryBody(summary_data) ==
    IF summary_data.style = "detailed" /\ DOMAIN summary_data.sections # {}
    THEN SectionEntries(summary_data.sections, "overview", "## Overview")
         \o SectionEntries(summary_data.sections, "key_points", "## Key Points")
         \o SectionEntries(summary_data.sections, "details",
                           "## Important Details")
         \o SectionEntries(summary_data.sections, "conclusion", "## Conclusion")
    ELSE <<<<"## Summary">>, <<>>, summary_data.summary, <<>>>>

\* The statistics block (lines 119-122); the transcript's word count of
\* line 123 does not depend on the summary and is left out.
Statistics(summary_data) ==
    <<<<"## Statistics">>, <<>>,
      <<"- **Summary word count:**", " ", ToString(summary_data.word_count)>>>>

\* generate_markdown on the result summarize has returned.
RenderMarkdown ==
    /\ render_pc = "idle"
    /\ sum_pc = "done"
    /\ Len(sum_result) = 1
    /\ markdown' = SummaryBody(sum_result[1]) \o Statistics(sum_result[1])
    /\ render_pc' = "done"
    /\ UNCHANGED notRenderVars

RenderNext ==
    \/ SummarizeStart
    \/ ChunkPrimary
    \/ ChunkInnerFallback
    \/ ChunkOuterFallback
    \/ FinalPrimary
    \/ FinalFallback
    \/ SinglePrimary
    \/ SingleFallback
    \/ RenderMarkdown

SpecRender == SumInit /\ [][RenderNext]_vars

\* The headings of the four sections, with the section each one is for.
SectionHeadings ==
    {<<"overview", "## Overview">>, <<"key_points", "## Key Points">>,
     <<"details", "## Important Details">>, <<"conclusion", "## Conclusion">>}

\* The position of the statistics heading in the document.
StatisticsAt(doc) == CHOOSE i \in 1..Len(doc) : doc[i] = <<"## Statistics">>

\* C22: the document rendered for any result summarize returns has a summary
\* body before its statistics block: a section heading followed by that
\* section's text, or the heading Summary followed by the raw summary.
C22_SummaryBodyRendered ==
    render_pc = "done" =>
        \E i \in 1..(StatisticsAt(markdown) - 1) :
            \/ \E h \in SectionHeadings :
                  /\ markdown[i] = <<h[2]>>
                  /\ h[1] \in DOMAIN sum_result[1].sections
                  /\ markdown[i + 2] = sum_result[1].sections[h[1]]
            \/ /\ markdown[i] = <<"## Summary">>
               /\ markdown[i + 2] = sum_result[1].summary

====
